---- MODULE Spec2Model ----
(***************************************************************************)
(* Custom autograd Functions of Pytorch/Extending_torch_autograd.ipynb:    *)
(* LinearFunction and the MulConstant variants, run by the autograd engine *)
(* as the notebook's markdown describes it (one context per invocation,    *)
(* needs_input_grad, gradient materialization).                            *)
(*                                                                         *)
(* Tensors live in a heap (a sequence of values, a tensor's identity is    *)
(* its index), so that an in-place update and an alias are visible.  A 2-D *)
(* tensor is a sequence of rows, a 1-D tensor a sequence of numbers.       *)
(* Entries are integers: the arithmetic is exact.                          *)
(***************************************************************************)
EXTENDS Integers, Sequences, FiniteSets, TLC

\* Bounds of the model.
MaxDim == 2
MaxSeed == 2
MaxConst == 2
MaxCalls == 2

VARIABLES heap, graph, last

vars == <<heap, graph, last>>

\* Python's None, apart from every heap index (>= 1) and every seed (>= 0).
None == 0 - 1
Dims == 1..MaxDim
Seeds == 0..MaxSeed
Consts == (0 - MaxConst)..MaxConst

(***************************************************************************)
(* Tensor primitives the notebook's code calls.                            *)
(***************************************************************************)
RECURSIVE SumTo(_, _)
SumTo(f, n) == IF n = 0 THEN 0 ELSE f[n] + SumTo(f, n - 1)

Rows(x) == Len(x)
Cols(x) == Len(x[1])

\* torch.randn(r, c): a sample, indexed by its seed.
Entry(s, i, j) == (((s + 1) * (2 * i + 3 * j) + s) % 5) - 2
randn(r, c, s) == [i \in 1..r |-> [j \in 1..c |-> Entry(s, i, j)]]
randn1(n, s) == [j \in 1..n |-> Entry(s, 1, j)]

\* The tensor of zeros the engine materializes for an absent gradient.
zeros_like(x) == [i \in 1..Rows(x) |-> [j \in 1..Cols(x) |-> 0]]

\* weight.t()
transpose(w) == [j \in 1..Cols(w) |-> [i \in 1..Rows(w) |-> w[i][j]]]

\* a.mm(b)
mm(a, b) ==
  [i \in 1..Rows(a) |->
     [j \in 1..Cols(b) |->
        SumTo([l \in 1..Cols(a) |-> a[i][l] * b[l][j]], Cols(a))]]

\* bias.unsqueeze(0)
unsqueeze0(b) == <<b>>

\* x.expand_as(o), x of one row
expand_as(x, o) == [i \in 1..Rows(o) |-> x[1]]

\* the value o += x leaves in o
iadd(o, x) == [i \in 1..Rows(o) |-> [j \in 1..Cols(o) |-> o[i][j] + x[i][j]]]

\* A faulty sum(0): the first row instead of the sum over the rows.
sum0_first_row(g) == g[1]

\* grad_output.sum(0)
sum0(g) == [j \in 1..Cols(g) |-> SumTo([i \in 1..Rows(g) |-> g[i][j]], Rows(g))]

\* tensor * constant
mul(x, c) == [i \in 1..Rows(x) |-> [j \in 1..Cols(x) |-> x[i][j] * c]]

(***************************************************************************)
(* The context object of one invocation.                                   *)
(***************************************************************************)
NewCtx(nig) ==
  [saved_tensors |-> <<>>, constant |-> None, materialize_grads |-> TRUE,
   needs_input_grad |-> nig]

(***************************************************************************)
(* LinearFunction.  forward and backward take the heap, the context and    *)
(* their arguments (heap indices or None) and give the heap, the context   *)
(* and the value returned.                                                 *)
(***************************************************************************)
\* A faulty forward: the bias is not expanded, it reaches the first row only.
LinearFunction_forward_first_row(h, ctx, input, weight, bias) ==
  LET ctx1 == [ctx EXCEPT !.saved_tensors = <<input, weight, bias>>]
      h1 == Append(h, mm(h[input], transpose(h[weight])))
      output == Len(h1)
      h2 == IF bias # None
              THEN [h1 EXCEPT ![output][1] =
                      [j \in 1..Cols(h1[output]) |-> h1[output][1][j] + h1[bias][j]]]
              ELSE h1
  IN [heap |-> h2, ctx |-> ctx1, ret |-> output]

\* save_for_backward; output = input.mm(weight.t()); output += bias, expanded.
LinearFunction_forward(h, ctx, input, weight, bias) ==
  LET ctx1 == [ctx EXCEPT !.saved_tensors = <<input, weight, bias>>]
      h1 == Append(h, mm(h[input], transpose(h[weight])))
      output == Len(h1)
      h2 == IF bias # None
              THEN [h1 EXCEPT ![output] =
                      iadd(h1[output], expand_as(unsqueeze0(h1[bias]), h1[output]))]
              ELSE h1
  IN [heap |-> h2, ctx |-> ctx1, ret |-> output]

\* grad_output.mm(weight), when asked for
LinearGradInput(h, ctx, grad_output) ==
  LET weight == ctx.saved_tensors[2]
  IN IF ctx.needs_input_grad[1] THEN <<mm(h[grad_output], h[weight])>> ELSE <<>>

\* grad_output.t().mm(input), when asked for
LinearGradWeight(h, ctx, grad_output) ==
  LET input == ctx.saved_tensors[1]
  IN IF ctx.needs_input_grad[2]
       THEN <<mm(transpose(h[grad_output]), h[input])>> ELSE <<>>

\* grad_output.sum(0), when there is a bias and it is asked for
LinearGradBias(h, ctx, grad_output) ==
  LET bias == ctx.saved_tensors[3]
  IN IF bias # None /\ ctx.needs_input_grad[3]
       THEN <<sum0(h[grad_output])>> ELSE <<>>

\* The index a value appended after `before` gets, None when none is appended.
Slot(before, new) == IF new = <<>> THEN None ELSE Len(before) + 1

\* A backward without the needs_input_grad checks.
LinearFunction_backward_all(h, ctx, grad_output) ==
  LET input == ctx.saved_tensors[1]
      weight == ctx.saved_tensors[2]
      bias == ctx.saved_tensors[3]
      h1 == Append(h, mm(h[grad_output], h[weight]))
      h2 == Append(h1, mm(transpose(h[grad_output]), h[input]))
      gb == IF bias # None THEN <<sum0(h[grad_output])>> ELSE <<>>
  IN [heap |-> h2 \o gb, ret |-> <<Len(h1), Len(h2), Slot(h2, gb)>>]

\* A faulty backward: no third value when forward was given no bias.
LinearFunction_backward_short(h, ctx, grad_output) ==
  LET gi == LinearGradInput(h, ctx, grad_output)
      gw == LinearGradWeight(h, ctx, grad_output)
      gb == LinearGradBias(h, ctx, grad_output)
      h1 == h \o gi
      h2 == h1 \o gw
      full == <<Slot(h, gi), Slot(h1, gw), Slot(h2, gb)>>
  IN [heap |-> h2 \o gb,
      ret |-> IF ctx.saved_tensors[3] = None THEN SubSeq(full, 1, 2) ELSE full]

\* return grad_input, grad_weight, grad_bias
LinearFunction_backward(h, ctx, grad_output) ==
  LET gi == LinearGradInput(h, ctx, grad_output)
      gw == LinearGradWeight(h, ctx, grad_output)
      gb == LinearGradBias(h, ctx, grad_output)
      h1 == h \o gi
      h2 == h1 \o gw
  IN [heap |-> h2 \o gb, ret |-> <<Slot(h, gi), Slot(h1, gw), Slot(h2, gb)>>]

(***************************************************************************)
(* MulConstant, as first given (twice), and as optimized with              *)
(* set_materialize_grads(False).                                           *)
(***************************************************************************)
\* A faulty forward: tensor *= constant, in place, returning the input itself.
MulConstant_forward_inplace(h, ctx, tensor, constant) ==
  [heap |-> [h EXCEPT ![tensor] = mul(h[tensor], constant)],
   ctx |-> [ctx EXCEPT !.constant = constant],
   ret |-> tensor]

\* ctx.constant = constant; return tensor * constant
MulConstant_forward(h, ctx, tensor, constant) ==
  LET ctx1 == [ctx EXCEPT !.constant = constant]
      h1 == Append(h, mul(h[tensor], constant))
  IN [heap |-> h1, ctx |-> ctx1, ret |-> Len(h1)]

\* A faulty backward: grad_output *= ctx.constant, in place.
MulConstant_backward_inplace(h, ctx, grad_output) ==
  [heap |-> [h EXCEPT ![grad_output] = mul(h[grad_output], ctx.constant)],
   ret |-> <<grad_output, None>>]

\* A faulty backward: the gradient is passed on without the constant.
MulConstant_backward_unscaled(h, ctx, grad_output) ==
  [heap |-> Append(h, h[grad_output]), ret |-> <<Len(h) + 1, None>>]

\* return grad_output * ctx.constant, None
MulConstant_backward(h, ctx, grad_output) ==
  LET h1 == Append(h, mul(h[grad_output], ctx.constant))
  IN [heap |-> h1, ret |-> <<Len(h1), None>>]

\* ctx.set_materialize_grads(False); ctx.constant = constant; return tensor * constant
MulConstantOpt_forward(h, ctx, tensor, constant) ==
  LET ctx1 == [ctx EXCEPT !.materialize_grads = FALSE]
      ctx2 == [ctx1 EXCEPT !.constant = constant]
      h1 == Append(h, mul(h[tensor], constant))
  IN [heap |-> h1, ctx |-> ctx2, ret |-> Len(h1)]

\* A faulty backward: an absent gradient is answered with a tensor of zeros.
MulConstantOpt_backward_zeros(h, ctx, grad_output) ==
  IF grad_output = None
    THEN [heap |-> Append(h, mul(h[Len(h)], 0)), ret |-> <<Len(h) + 1, None>>]
    ELSE LET h1 == Append(h, mul(h[grad_output], ctx.constant))
         IN [heap |-> h1, ret |-> <<Len(h1), None>>]

\* if grad_output is None: return None, None; else as MulConstant.backward
MulConstantOpt_backward(h, ctx, grad_output) ==
  IF grad_output = None
    THEN [heap |-> h, ret |-> <<None, None>>]
    ELSE LET h1 == Append(h, mul(h[grad_output], ctx.constant))
         IN [heap |-> h1, ret |-> <<Len(h1), None>>]

(***************************************************************************)
(* The engine: Function.apply and the backward pass.                       *)
(***************************************************************************)
MulOps == {"MulConstant", "MulConstantOpt"}

\* What the cells pass to linear(...): shapes, samples, requires_grad flags.
LinearArgs ==
  { a \in [m : Dims, k : Dims, n : Dims, sa : Seeds, sw : Seeds,
           sb : Seeds \cup {None}, ra : BOOLEAN, rw : BOOLEAN, rb : BOOLEAN] :
      a.sb = None => ~a.rb }

MulArgs ==
  [op : MulOps, m : Dims, k : Dims, st : Seeds, c : Consts, rt : BOOLEAN]

\* One sample per call, every tensor requiring a gradient (the gradcheck cells).
LinearSamples ==
  { a \in LinearArgs :
      /\ a.sa = a.sw /\ a.ra /\ a.rw
      /\ a.m = 1 + (a.sa % MaxDim) /\ a.k = MaxDim /\ a.n = 1 + ((a.sa + 1) % MaxDim)
      /\ (a.sb # None) = (a.sa % 2 = 1)
      /\ (a.sb # None => a.sb = a.sa /\ a.rb) }

MulSamples ==
  { a \in MulArgs :
      /\ a.rt /\ a.m = 1 /\ a.k = MaxDim /\ a.c = a.st - 1 }

Grads == Seeds \cup {None}
GradSamples == {0, None}

\* A constant kept on the class, not on the context: the latest forward's wins.
CtxFor_shared(g, id) ==
  IF g[id].op \in MulOps /\ g[Len(g)].op = g[id].op THEN g[Len(g)].ctx ELSE g[id].ctx

\* The context the engine hands to the backward of invocation id.
CtxFor(g, id) == g[id].ctx

\* linear(input, weight) or linear(input, weight, bias) on fresh samples: the
\* engine makes the context, sets needs_input_grad, calls forward and records
\* the node.
ApplyLinear(limit, Args) ==
  /\ Len(graph) < limit
  /\ \E a \in Args :
       LET h0 == heap \o <<randn(a.m, a.k, a.sa), randn(a.n, a.k, a.sw)>>
           input == Len(heap) + 1
           weight == Len(heap) + 2
           h1 == IF a.sb = None THEN h0 ELSE Append(h0, randn1(a.n, a.sb))
           bias == IF a.sb = None THEN None ELSE Len(h1)
           r == LinearFunction_forward(h1, NewCtx(<<a.ra, a.rw, a.rb>>),
                                       input, weight, bias)
       IN /\ heap' = r.heap
          /\ graph' = Append(graph,
               [op |-> "LinearFunction", ctx |-> r.ctx,
                inputs |-> <<input, weight, bias>>,
                nargs |-> IF a.sb = None THEN 2 ELSE 3,
                output |-> r.ret, done |-> FALSE])
          /\ last' = [kind |-> "forward", id |-> Len(graph) + 1, ret |-> <<r.ret>>,
                      grad_output |-> None, before |-> h1]

\* MulConstant.apply(tensor, constant), for either class of that name.
ApplyMulConstant(limit, Args) ==
  /\ Len(graph) < limit
  /\ \E a \in Args :
       LET h1 == Append(heap, randn(a.m, a.k, a.st))
           tensor == Len(h1)
           ctx == NewCtx(<<a.rt, FALSE>>)
           r == IF a.op = "MulConstant"
                  THEN MulConstant_forward(h1, ctx, tensor, a.c)
                  ELSE MulConstantOpt_forward(h1, ctx, tensor, a.c)
       IN /\ heap' = r.heap
          /\ graph' = Append(graph,
               [op |-> a.op, ctx |-> r.ctx, inputs |-> <<tensor, a.c>>,
                nargs |-> 2, output |-> r.ret, done |-> FALSE])
          /\ last' = [kind |-> "forward", id |-> Len(graph) + 1, ret |-> <<r.ret>>,
                      grad_output |-> None, before |-> h1]

\* The backward pass reaches a node some input of which requires a gradient:
\* its output got the gradient g, or none (zeros unless the forward disabled
\* materialization); backward runs once, with the context of that invocation.
Backward(GradSet) ==
  \E id \in 1..Len(graph), g \in GradSet :
    LET node == graph[id]
        ctx == CtxFor(graph, id)
        out == heap[node.output]
        h1 == IF g # None THEN Append(heap, randn(Rows(out), Cols(out), g))
              ELSE IF ctx.materialize_grads THEN Append(heap, zeros_like(out))
              ELSE heap
        grad_output == IF g = None /\ ~ctx.materialize_grads THEN None ELSE Len(h1)
        r == CASE node.op = "LinearFunction" ->
                    LinearFunction_backward(h1, ctx, grad_output)
               [] node.op = "MulConstant" ->
                    MulConstant_backward(h1, ctx, grad_output)
               [] node.op = "MulConstantOpt" ->
                    MulConstantOpt_backward(h1, ctx, grad_output)
    IN /\ ~node.done
       /\ \E i \in 1..Len(node.ctx.needs_input_grad) : node.ctx.needs_input_grad[i]
       /\ heap' = r.heap
       /\ graph' = [graph EXCEPT ![id].done = TRUE]
       /\ last' = [kind |-> "backward", id |-> id, ret |-> r.ret,
                   grad_output |-> grad_output, before |-> h1]

Init ==
  /\ heap = <<>>
  /\ graph = <<>>
  /\ last = [kind |-> "init", id |-> 0, ret |-> <<>>, grad_output |-> None,
             before |-> <<>>]

\* One invocation, over every shape, sample and requires_grad choice.
Next ==
  \/ ApplyLinear(1, LinearArgs)
  \/ ApplyMulConstant(1, MulArgs)
  \/ Backward(Grads)

Spec == Init /\ [][Next]_vars

\* Several invocations alive at once, one sample each.
NextCtx ==
  \/ ApplyLinear(MaxCalls, LinearSamples)
  \/ ApplyMulConstant(MaxCalls, MulSamples)
  \/ Backward(GradSamples)

SpecCtx == Init /\ [][NextCtx]_vars

(***************************************************************************)
(* What the claims are stated with: the call `last` describes, and the     *)
(* linear algebra written out entry by entry.                              *)
(***************************************************************************)
IsForward == last.kind = "forward"
IsBackward == last.kind = "backward"
LastNode == graph[last.id]
IsLinear == LastNode.op = "LinearFunction"
IsMul == LastNode.op \in MulOps

\* The arguments forward was called with, as they were at the call.
ArgInput == graph[last.id].inputs[1]
ArgWeight == graph[last.id].inputs[2]
ArgBias == graph[last.id].inputs[3]
HasBias == ArgBias # None

Dot(x, y) == SumTo([l \in 1..Len(x) |-> x[l] * y[l]], Len(x))
Column(x, j) == [i \in 1..Rows(x) |-> x[i][j]]
IsMatrix(x, r, c) == Len(x) = r /\ \A i \in 1..r : Len(x[i]) = c
NonZero(x) == \E i \in 1..Rows(x), j \in 1..Cols(x) : x[i][j] # 0

\* The upstream gradient of the last backward; an absent one stands for zeros.
UpstreamOf(h) ==
  IF last.grad_output = None THEN zeros_like(h[LastNode.output])
  ELSE h[last.grad_output]
\* A returned gradient of the shape of x; an absent one stands for zeros.
Denoted(r, x) == IF r = None THEN zeros_like(x) ELSE heap[r]

\* C1: LinearFunction.forward gives input . weight^T, plus the bias on every
\* row when a bias is passed, and exactly input . weight^T when none is.
C1_ForwardIsLinear ==
  (IsForward /\ IsLinear) =>
    LET A == last.before[ArgInput]
        W == last.before[ArgWeight]
        out == heap[LastNode.output]
    IN /\ IsMatrix(out, Rows(A), Rows(W))
       /\ \A i \in 1..Rows(A), j \in 1..Rows(W) :
            out[i][j] = Dot(A[i], W[j])
                        + (IF HasBias THEN last.before[ArgBias][j] ELSE 0)

C1_Witness ==
  /\ IsForward /\ IsLinear /\ HasBias
  /\ Rows(heap[LastNode.output]) > 1 /\ Cols(heap[ArgInput]) > 1
  /\ \E j \in 1..Len(heap[ArgBias]) : heap[ArgBias][j] # 0

\* C2: every MulConstant backward returns, for the tensor, the upstream
\* gradient times the constant its own forward was given (an absent gradient
\* standing for zeros, and a present one giving a tensor), and None for the
\* constant.
C2_MulBackwardScales ==
  (IsBackward /\ IsMul) =>
    LET G == UpstreamOf(last.before)
        c == LastNode.inputs[2]
        r == Denoted(last.ret[1], G)
    IN /\ last.ret[2] = None
       /\ last.grad_output # None => last.ret[1] # None
       /\ IsMatrix(r, Rows(G), Cols(G))
       /\ \A i \in 1..Rows(G), j \in 1..Cols(G) : r[i][j] = c * G[i][j]

C2_Witness ==
  /\ IsBackward /\ IsMul /\ last.grad_output # None
  /\ LastNode.inputs[2] \notin {0, 1}
  /\ NonZero(last.before[last.grad_output])

\* C3: the MulConstant that disables materialization, given None as the
\* upstream gradient, returns (None, None) and computes no product: no tensor
\* is created or changed.
C3_AbsentGradSkipsMultiply ==
  (IsBackward /\ LastNode.op = "MulConstantOpt" /\ last.grad_output = None) =>
    /\ last.ret = <<None, None>>
    /\ heap = last.before

C3_Witness ==
  /\ IsBackward /\ LastNode.op = "MulConstantOpt" /\ last.grad_output = None
  /\ LastNode.inputs[2] # 0

\* C5: a backward returns as many values as forward was given inputs, more only
\* as trailing Nones: three from LinearFunction (the third None when no bias
\* was passed), two from MulConstant, the early return included.
C5_GradientTupleLength ==
  IsBackward =>
    /\ Len(last.ret) >= LastNode.nargs
    /\ \A i \in (LastNode.nargs + 1)..Len(last.ret) : last.ret[i] = None
    /\ IsLinear => Len(last.ret) = 3
    /\ IsMul => Len(last.ret) = 2

C5_Witness ==
  /\ IsBackward /\ IsLinear /\ LastNode.nargs = 2
  /\ LastNode.ctx.needs_input_grad = <<TRUE, TRUE, FALSE>>

\* C6: LinearFunction.backward returns None at every position whose input
\* needs no gradient or is absent, and a gradient of the shape of its input at
\* every position whose input is present and needs one; MulConstant.backward
\* returns None at the position of the constant.
C6_NoneWhereNoGradient ==
  IsBackward =>
    /\ IsMul => last.ret[2] = None
    /\ IsLinear =>
         LET nig == LastNode.ctx.needs_input_grad
             A == heap[ArgInput]
             W == heap[ArgWeight]
         IN /\ \A i \in 1..3 : ~nig[i] => last.ret[i] = None
            /\ ~HasBias => last.ret[3] = None
            /\ nig[1] => /\ last.ret[1] # None
                         /\ IsMatrix(heap[last.ret[1]], Rows(A), Cols(A))
            /\ nig[2] => /\ last.ret[2] # None
                         /\ IsMatrix(heap[last.ret[2]], Rows(W), Cols(W))
            /\ (nig[3] /\ HasBias) =>
                         /\ last.ret[3] # None
                         /\ Len(heap[last.ret[3]]) = Len(heap[ArgBias])

C6_Witness ==
  /\ IsBackward /\ IsLinear /\ HasBias
  /\ LastNode.ctx.needs_input_grad = <<FALSE, TRUE, FALSE>>
  /\ last.ret[1] = None /\ last.ret[2] # None /\ last.ret[3] = None

\* C7: a backward leaves the gradient it receives, and every other tensor
\* that existed at the call, as it was; what it returns are new tensors.
C7_GradOutputNotMutated ==
  IsBackward =>
    /\ \A x \in 1..Len(last.before) : heap[x] = last.before[x]
    /\ \A i \in 1..Len(last.ret) :
         last.ret[i] # None => last.ret[i] > Len(last.before)

C7_Witness ==
  /\ IsBackward /\ IsMul /\ last.grad_output # None
  /\ LastNode.inputs[2] \notin {0, 1}
  /\ NonZero(heap[last.grad_output])
  /\ last.ret[1] # None

\* forward(A, W) or forward(A, W, bs[1]), evaluated on a heap of its own.
LinearOf(A, W, bs) ==
  LET r == IF bs = <<>>
             THEN LinearFunction_forward(<<A, W>>, NewCtx(<<TRUE, TRUE, FALSE>>),
                                         1, 2, None)
             ELSE LinearFunction_forward(<<A, W, bs[1]>>, NewCtx(<<TRUE, TRUE, TRUE>>),
                                         1, 2, 3)
  IN r.heap[r.ret]

\* Twice the vector-Jacobian product of G with f at one input entry: the
\* G-weighted central difference of f over a step of one.
Vjp2(G, up, down) ==
  SumTo([i \in 1..Rows(G) |->
           SumTo([j \in 1..Cols(G) |-> G[i][j] * (up[i][j] - down[i][j])], Cols(G))],
        Rows(G))

Bump2(x, r, c, d) == [x EXCEPT ![r][c] = @ + d]
Bump1(x, c, d) == [x EXCEPT ![c] = @ + d]

\* C8: with every input requiring a gradient, LinearFunction.backward returns
\* G.W, G^T.A and the column sums of G, of the shapes of input, weight and
\* bias; they are the vector-Jacobian products of forward with G.
C8_BackwardIsDerivative ==
  (IsBackward /\ IsLinear /\ LastNode.ctx.needs_input_grad = <<TRUE, TRUE, HasBias>>) =>
    LET G == heap[last.grad_output]
        A == heap[ArgInput]
        W == heap[ArgWeight]
        b == IF HasBias THEN <<heap[ArgBias]>> ELSE <<>>
        gi == heap[last.ret[1]]
        gw == heap[last.ret[2]]
    IN /\ IsMatrix(gi, Rows(A), Cols(A))
       /\ IsMatrix(gw, Rows(W), Cols(W))
       /\ \A i \in 1..Rows(A), l \in 1..Cols(A) :
            /\ gi[i][l] = Dot(G[i], Column(W, l))
            /\ 2 * gi[i][l] = Vjp2(G, LinearOf(Bump2(A, i, l, 1), W, b),
                                      LinearOf(Bump2(A, i, l, 0 - 1), W, b))
       /\ \A j \in 1..Rows(W), l \in 1..Cols(W) :
            /\ gw[j][l] = Dot(Column(G, j), Column(A, l))
            /\ 2 * gw[j][l] = Vjp2(G, LinearOf(A, Bump2(W, j, l, 1), b),
                                      LinearOf(A, Bump2(W, j, l, 0 - 1), b))
       /\ HasBias =>
            LET gb == heap[last.ret[3]]
            IN /\ Len(gb) = Len(b[1])
               /\ \A j \in 1..Len(b[1]) :
                    /\ gb[j] = SumTo(Column(G, j), Rows(G))
                    /\ 2 * gb[j] = Vjp2(G, LinearOf(A, W, <<Bump1(b[1], j, 1)>>),
                                           LinearOf(A, W, <<Bump1(b[1], j, 0 - 1)>>))

C8_Witness ==
  /\ IsBackward /\ IsLinear /\ HasBias
  /\ LastNode.ctx.needs_input_grad = <<TRUE, TRUE, TRUE>>
  /\ Rows(heap[ArgInput]) > 1 /\ Cols(heap[ArgInput]) > 1
  /\ Rows(heap[ArgWeight]) = 1
  /\ NonZero(heap[last.grad_output])

\* C9: each backward works from what its own forward stored, whatever other
\* forwards ran before or after it, and runs only after that forward: the
\* context it is given holds its own forward's arguments, and its gradients
\* are those of its own forward's constant, input and weight.
C9_BackwardUsesOwnContext ==
  IsBackward =>
    LET node == LastNode
        ctx == CtxFor(graph, last.id)
        G == UpstreamOf(last.before)
    IN /\ last.id \in 1..Len(graph) /\ node.done
       /\ IsMul =>
            /\ ctx.constant = node.inputs[2]
            /\ \A i \in 1..Rows(G), j \in 1..Cols(G) :
                 Denoted(last.ret[1], G)[i][j] = node.inputs[2] * G[i][j]
       /\ IsLinear =>
            /\ ctx.saved_tensors = node.inputs
            /\ \A i \in 1..Rows(G), l \in 1..Cols(heap[ArgInput]) :
                 heap[last.ret[1]][i][l] = Dot(G[i], Column(heap[ArgWeight], l))
            /\ \A j \in 1..Cols(G), l \in 1..Cols(heap[ArgInput]) :
                 heap[last.ret[2]][j][l] = Dot(Column(G, j), Column(heap[ArgInput], l))

\* Two forwards of one operation with different arguments, then the backward
\* of the first of them.
C9_Witness ==
  /\ IsBackward /\ last.id = 1 /\ Len(graph) > 1
  /\ graph[2].op = graph[1].op /\ IsMul
  /\ graph[2].ctx.constant # graph[1].ctx.constant
  /\ ~graph[2].done
  /\ last.grad_output # None /\ NonZero(heap[last.grad_output])

\* C10: a forward changes none of its inputs (no tensor that existed at the
\* call), its output is a new tensor, and what it saves for backward is what
\* it was passed.
C10_ForwardKeepsInputs ==
  IsForward =>
    /\ \A x \in 1..Len(last.before) : heap[x] = last.before[x]
    /\ LastNode.output > Len(last.before)
    /\ IsLinear => LastNode.ctx.saved_tensors = LastNode.inputs
    /\ IsMul => LastNode.ctx.constant = LastNode.inputs[2]

C10_Witness ==
  /\ IsForward /\ IsLinear /\ HasBias
  /\ \E j \in 1..Len(heap[ArgBias]) : heap[ArgBias][j] # 0
  /\ NonZero(heap[ArgInput])

====
